---- MODULE Spec2Model ----
(***************************************************************************)
(* Model of the TemPageR monitoring plugin (tempager.py).                  *)
(*                                                                         *)
(* One invocation is a single synchronous pipeline:                        *)
(*   connect -> read_all -> regex repair -> json loads -> classification   *)
(*   loop with severity roll-up -> one of three reports -> exit.           *)
(*                                                                         *)
(* Four specifications share the variables:                                *)
(*   Spec         the whole invocation, the decoded payload being input    *)
(*   SpecClassify the threshold classification for arbitrary thresholds    *)
(*   SpecRepair   the three re.sub passes on arbitrary short texts         *)
(*   SpecDialect  the three re.sub passes on device-dialect objects        *)
(***************************************************************************)
EXTENDS Integers, Sequences, FiniteSets, TLC

VARIABLES
    pc,              \* position of the invocation
    command,         \* argv[1]: "config", "nagios" or "" (raw values)
    tempWarning,     \* self.tempWarning
    tempCritical,    \* self.tempCritical
    decoded,         \* result of loads(text): [kind, sensor]
    idx,             \* number of sensor records the loop of fetch() has completed
    temperatures,    \* self.temperatures
    nagiosExitCode,  \* self.nagiosExitCode
    stdout,          \* lines written to standard output
    exitStatus,      \* process exit status, -1 while the process runs
    failure,         \* which fatal error ended the invocation, "none" otherwise
    raw,             \* text as received by tn.read_all()
    text,            \* the local variable text of fetch() during the repair
    device           \* the object the sensor rendered into raw (SpecDialect)

vars == <<pc, command, tempWarning, tempCritical, decoded, idx, temperatures,
          nagiosExitCode, stdout, exitStatus, failure, raw, text, device>>

(***************************************************************************)
(* Bounds of the model                                                     *)
(***************************************************************************)
MaxSensors == 3
MaxLen == 5
MaxPairs == 2
MaxThreshold == 4
MaxContent == 2

(***************************************************************************)
(* Configuration and constants of the program                              *)
(***************************************************************************)
DefaultWarning == 28
DefaultCritical == 30
UnknownCode == 3
UncaughtExit == 1

graphTitle == "Server Room Temperatures"
temperatureLabel == "Celsius"
temperatureSymbol == "C"
sensorTemp == "tempc"

Commands == {"config", "nagios", ""}
Labels == {"Rack"}
Temps == {27, 28, 29, 30}

\* A decoded sensor record: the keys it has and their values (a key the
\* record lacks carries the filler "" or 0, which no code path reads).
SensorRecords ==
    { r \in [keys : SUBSET {"label", "tempc"}, label : Labels \cup {""}, tempc : Temps \cup {0}] :
        /\ (r.label = "") <=> ("label" \notin r.keys)
        /\ (r.tempc = 0) <=> ("tempc" \notin r.keys) }

HasKey(sensor, key) == key \in sensor.keys

\* A record the loop of fetch() can process: both fields it reads exist.
WellFormed(sensor) == HasKey(sensor, "label") /\ HasKey(sensor, sensorTemp)

RECURSIVE SeqsUpTo(_, _)
SeqsUpTo(S, n) ==
    IF n = 0 THEN {<<>>}
    ELSE LET shorter == SeqsUpTo(S, n - 1)
         IN  shorter \cup { Append(s, x) : s \in { q \in shorter : Len(q) = n - 1 }, x \in S }

SensorLists == SeqsUpTo(SensorRecords, MaxSensors)

(***************************************************************************)
(* Classification and roll-up (fetch, lines 127-139)                       *)
(***************************************************************************)
\* Variants of the comparisons and of the roll-up with one operator changed.
StateLeWarn(temp, warn, crit) ==
    IF temp <= warn THEN "OK"
    ELSE IF temp < crit THEN "Warning"
    ELSE "Critical"

StateLeCrit(temp, warn, crit) ==
    IF temp < warn THEN "OK"
    ELSE IF temp <= crit THEN "Warning"
    ELSE "Critical"

State(temp, warn, crit) ==
    IF temp < warn THEN "OK"
    ELSE IF temp < crit THEN "Warning"
    ELSE "Critical"

RollUpWarningAlways(code, state) ==
    IF state = "OK" /\ code = 3 THEN 0
    ELSE IF state = "Warning" THEN 1
    ELSE IF state = "Critical" /\ code >= 0 THEN 2
    ELSE code

RollUp(code, state) ==
    IF state = "OK" /\ code = 3 THEN 0
    ELSE IF state = "Warning" /\ code = 0 THEN 1
    ELSE IF state = "Critical" /\ code >= 0 THEN 2
    ELSE code

(***************************************************************************)
(* Standard output.  A text is a sequence of lines, a line a sequence of   *)
(* segments (joined by ' - ' in the alert summary); the empty string is    *)
(* the text of one line without segments.                                  *)
(***************************************************************************)
Seg(kind, id, label, num, state) ==
    [kind |-> kind, id |-> id, label |-> label, num |-> num, state |-> state]

BlankLine == <<>>

\* '\n'.join(items): the items' lines one after another; no item: ''.
RECURSIVE Concat(_)
Concat(items) ==
    IF items = <<>> THEN <<>> ELSE Head(items) \o Concat(Tail(items))

JoinLines(items) == IF items = <<>> THEN <<BlankLine>> ELSE Concat(items)

\* print(text) appends the lines of text to standard output.
WriteOut(out, txt) == out \o txt

\* logging.error / logging.info write to the log file, never to stdout.
LogPrinted(out, msg) == Append(out, <<Seg("log", 0, msg, 0, "")>>)

Log(out, msg) == out


\* enumerate(): the identifier of the i-th entry (1-based i) of a list.
SensorId(i) == i - 1

Header ==
    << <<Seg("graph_title", 0, graphTitle, 0, "")>>,
       <<Seg("graph_vlabel", 0, temperatureLabel, 0, "")>>,
       <<Seg("graph_args", 0, "--base 1000 -l 0", 0, "")>>,
       <<Seg("graph_category", 0, "sensors", 0, "")>> >>

\* The three-line graph template of one sensor (printConfig, lines 159-161).
ConfigItem(sId, sensor, warn, crit) ==
    << <<Seg("label", sId, sensor.label, 0, "")>>,
       <<Seg("warning", sId, "", warn, "")>>,
       <<Seg("critical", sId, "", crit, "")>> >>

ConfigText(temps, warn, crit) ==
    JoinLines(<<Header,
                JoinLines([i \in 1..Len(temps) |->
                              ConfigItem(SensorId(i), temps[i], warn, crit)])>>)

\* "temp{}.value {}" (printTemp, line 181).
ValueItem(sId, sensor) == << <<Seg("value", sId, "", sensor.temp, "")>> >>

TempText(temps) ==
    JoinLines([i \in 1..Len(temps) |-> ValueItem(SensorId(i), temps[i])])

\* "Sensor({sensorId}) {label} is in state {state} ({temp}..{symbol})",
\* joined by ' - ' into one line (nagios, lines 195-199).
SummarySeg(sId, sensor) == Seg("Sensor", sId, sensor.label, sensor.temp, sensor.state)

NagiosText(temps) ==
    << [i \in 1..Len(temps) |-> SummarySeg(SensorId(i), temps[i])] >>

\* The summary template holds two non-ASCII characters between {temp} and
\* {symbol} (line 195); every other template and the header are ASCII.
HasNonAscii(txt) ==
    \E l \in 1..Len(txt) : \E j \in 1..Len(txt[l]) : txt[l][j].kind = "Sensor"

\* Whether print(txt) can encode txt for a standard output that encodes
\* non-ASCII characters (UTF-8) or does not (ASCII, Latin-1).
CanWrite(txt, encodes) == encodes \/ ~HasNonAscii(txt)

(***************************************************************************)
(* The decoded payload: what loads(text) returned                          *)
(***************************************************************************)
NoValue == [isDict |-> FALSE, hasSensor |-> FALSE, sensor |-> <<>>]

DecodedValues ==
    { [isDict |-> FALSE, hasSensor |-> FALSE, sensor |-> <<>>],
      [isDict |-> TRUE, hasSensor |-> FALSE, sensor |-> <<>>] }
    \cup { [isDict |-> TRUE, hasSensor |-> TRUE, sensor |-> l] : l \in SensorLists }

\* isinstance(temp, dict) and temp.get('sensor', []) (lines 123-124).
SensorsOf(d) == IF d.isDict /\ d.hasSensor THEN d.sensor ELSE <<>>

(***************************************************************************)
(* The invocation                                                          *)
(***************************************************************************)
Init ==
    /\ pc = "connect"
    /\ command \in Commands
    /\ tempWarning = DefaultWarning
    /\ tempCritical = DefaultCritical
    /\ decoded = NoValue
    /\ idx = 0
    /\ temperatures = <<>>
    /\ nagiosExitCode = UnknownCode
    /\ stdout = <<>>
    /\ exitStatus = -1
    /\ failure = "none"
    /\ raw = <<>>
    /\ text = <<>>
    /\ device = <<>>

\* exit(status) after a handled error; an uncaught exception ends the
\* interpreter with status 1 and a traceback on standard error.
Exit(status, why) ==
    /\ pc' = "exited"
    /\ exitStatus' = status
    /\ failure' = why

\* Telnet(...) and tn.write(...) inside try/except (lines 95-100).
Connect ==
    /\ pc = "connect"
    /\ \E ok \in BOOLEAN :
          IF ok
          THEN /\ pc' = "read"
               /\ UNCHANGED <<stdout, exitStatus, failure>>
          ELSE /\ stdout' = Log(stdout, "Something happened")
               /\ Exit(3, "connect")
    /\ UNCHANGED <<command, tempWarning, tempCritical, decoded, idx, temperatures,
                   nagiosExitCode, raw, text, device>>

\* tn.read_all().decode('ascii') outside any try (line 103).
ReadAll ==
    /\ pc = "read"
    /\ \E ok \in BOOLEAN :
          IF ok
          THEN /\ pc' = "loads"
               /\ UNCHANGED <<exitStatus, failure>>
          ELSE Exit(UncaughtExit, "read")
    /\ UNCHANGED <<command, tempWarning, tempCritical, decoded, idx, temperatures,
                   nagiosExitCode, stdout, raw, text, device>>

\* The repair and loads(text) inside try/except (lines 108-120); the value
\* decoded from the repaired text is an input of the invocation.
Loads ==
    /\ pc = "loads"
    /\ \E ok \in BOOLEAN :
          IF ok
          THEN /\ \E d \in DecodedValues : decoded' = d
               /\ pc' = "loop"
               /\ UNCHANGED <<stdout, exitStatus, failure>>
          ELSE /\ stdout' = Log(stdout, "Unable to parse JSON string")
               /\ Exit(3, "parse")
               /\ UNCHANGED decoded
    /\ UNCHANGED <<command, tempWarning, tempCritical, idx, temperatures,
                   nagiosExitCode, raw, text, device>>

\* One iteration of the loop of fetch() (lines 124-146).
FetchSensor ==
    /\ pc = "loop"
    /\ idx < Len(SensorsOf(decoded))
    /\ LET sensor == SensorsOf(decoded)[idx + 1]
           temp == sensor.tempc
           state == State(temp, tempWarning, tempCritical)
       IN  IF ~HasKey(sensor, sensorTemp)
           THEN \* KeyError at line 125
                /\ Exit(UncaughtExit, "field")
                /\ UNCHANGED <<idx, temperatures, nagiosExitCode>>
           ELSE IF ~HasKey(sensor, "label")
           THEN \* KeyError at line 143, after the roll-up of lines 134-139
                /\ nagiosExitCode' = RollUp(nagiosExitCode, state)
                /\ Exit(UncaughtExit, "field")
                /\ UNCHANGED <<idx, temperatures>>
           ELSE /\ nagiosExitCode' = RollUp(nagiosExitCode, state)
                /\ temperatures' = Append(temperatures,
                        [label |-> sensor.label, temp |-> sensor.tempc, state |-> state])
                /\ idx' = idx + 1
                /\ UNCHANGED <<pc, exitStatus, failure>>
    /\ UNCHANGED <<command, tempWarning, tempCritical, decoded, stdout, raw, text, device>>

FetchDone == pc = "loop" /\ idx = Len(SensorsOf(decoded))

\* printConfig after fetch() returned (lines 152-171).
PrintConfig ==
    /\ FetchDone
    /\ command = "config"
    /\ stdout' = WriteOut(stdout, ConfigText(temperatures, tempWarning, tempCritical))
    /\ Exit(0, "none")
    /\ UNCHANGED <<command, tempWarning, tempCritical, decoded, idx, temperatures,
                   nagiosExitCode, raw, text, device>>

\* printTemp after fetch() returned (lines 180-185).
PrintTemp ==
    /\ FetchDone
    /\ command \notin {"config", "nagios"}
    /\ stdout' = WriteOut(stdout, TempText(temperatures))
    /\ Exit(0, "none")
    /\ UNCHANGED <<command, tempWarning, tempCritical, decoded, idx, temperatures,
                   nagiosExitCode, raw, text, device>>

\* nagios after fetch() returned (lines 194-203).
\* The encoding of standard output is an input of the invocation: when it
\* cannot encode the summary, print (line 202) raises UnicodeEncodeError
\* after logging.info (line 201), nothing is written and the uncaught
\* exception ends the process.
Nagios ==
    /\ FetchDone
    /\ command = "nagios"
    /\ \E encodes \in BOOLEAN :
          IF CanWrite(NagiosText(temperatures), encodes)
          THEN /\ stdout' = WriteOut(Log(stdout, "Exit"), NagiosText(temperatures))
               /\ Exit(nagiosExitCode, "none")
          ELSE /\ stdout' = Log(stdout, "Exit")
               /\ Exit(UncaughtExit, "encode")
    /\ UNCHANGED <<command, tempWarning, tempCritical, decoded, idx, temperatures,
                   nagiosExitCode, raw, text, device>>

Next ==
    \/ Connect
    \/ ReadAll
    \/ Loads
    \/ FetchSensor
    \/ PrintConfig
    \/ PrintTemp
    \/ Nagios

Spec == Init /\ [][Next]_vars

(***************************************************************************)
(* Properties of the invocation (Spec)                                     *)
(***************************************************************************)
Completed == pc = "exited" /\ failure = "none"

\* Rank of an exit code in the order Unknown < Ok < Warning < Critical.
Rank(code) == CASE code = 3 -> 0 [] code = 0 -> 1 [] code = 1 -> 2 [] code = 2 -> 3

States(temps) == [i \in 1..Len(temps) |-> temps[i].state]

WorstCode(temps) ==
    IF \E i \in 1..Len(temps) : temps[i].state = "Critical" THEN 2
    ELSE IF \E i \in 1..Len(temps) : temps[i].state = "Warning" THEN 1
    ELSE IF \E i \in 1..Len(temps) : temps[i].state = "OK" THEN 0
    ELSE 3

\* C1: in alert-summary mode the exit status of a completed invocation is the
\* code of the worst severity among the classified readings (2 if any is
\* Critical, else 1 if any is Warning, else 0 if any is Ok, 3 with no reading).
C1_ExitIsWorstSeverity ==
    (Completed /\ command = "nagios") => exitStatus = WorstCode(temperatures)

\* C3: the running aggregate never moves to a lower rank in the order
\* Unknown < Ok < Warning < Critical at any step, and for the severities
\* [Ok, Critical, Warning] the aggregate ends Critical.
C3_AggregateNeverLowers ==
    /\ [][Rank(nagiosExitCode') >= Rank(nagiosExitCode)]_vars
    /\ [](States(temperatures) = <<"OK", "Critical", "Warning">> => nagiosExitCode = 2)

C3_Witness ==
    /\ States(temperatures) = <<"OK", "Critical", "Warning">>
    /\ nagiosExitCode = 2
    /\ idx = 3

AllWellFormed(sensors) == \A i \in 1..Len(sensors) : WellFormed(sensors[i])

\* C4: when the payload was decoded and all n records of its sensor sequence
\* are well-formed, the invocation completes (no failure of any kind, the
\* encoding of standard output included) and the mode's report holds
\* exactly the n readings in decode order with identifiers 0..n-1: n value
\* lines and exit 0 in raw-value mode, the fixed header and the label,
\* warning and critical lines of each sensor and exit 0 in graph-definition
\* mode, one Sensor(i) segment per reading in alert-summary mode; with n = 0
\* the body is empty.
C4_EveryReadingReported ==
    LET s == SensorsOf(decoded)
        n == Len(s)
        body == IF n = 0 THEN <<BlankLine>> ELSE <<>>
    IN  (pc = "exited" /\ failure \notin {"connect", "read", "parse"} /\ AllWellFormed(s))
        => /\ failure = "none"
           /\ command = "" =>
                /\ exitStatus = 0
                /\ stdout = body \o
                     [i \in 1..n |->
                        <<[kind |-> "value", id |-> i - 1, label |-> "",
                           num |-> s[i].tempc, state |-> ""]>>]
           /\ command = "config" =>
                /\ exitStatus = 0
                /\ SubSeq(stdout, 1, 4) = Header
                /\ SubSeq(stdout, 5, Len(stdout)) = body \o
                     [j \in 1..(3 * n) |->
                        LET i == (j + 2) \div 3
                        IN  CASE j % 3 = 1 ->
                                   <<[kind |-> "label", id |-> i - 1, label |-> s[i].label,
                                      num |-> 0, state |-> ""]>>
                              [] j % 3 = 2 ->
                                   <<[kind |-> "warning", id |-> i - 1, label |-> "",
                                      num |-> tempWarning, state |-> ""]>>
                              [] j % 3 = 0 ->
                                   <<[kind |-> "critical", id |-> i - 1, label |-> "",
                                      num |-> tempCritical, state |-> ""]>>]
           /\ command = "nagios" =>
                /\ Len(stdout) = 1
                /\ Len(stdout[1]) = n
                /\ \A i \in 1..n :
                      /\ stdout[1][i].kind = "Sensor"
                      /\ stdout[1][i].id = i - 1
                      /\ stdout[1][i].label = s[i].label
                      /\ stdout[1][i].num = s[i].tempc

\* C5: in every mode an invocation that hits a fatal error (connect, read,
\* decode, a record lacking a field it reads, or a summary that standard
\* output cannot encode) ends with a non-zero exit
\* status and has written nothing to standard output, not even for the
\* readings processed before the failure.
C5_FatalErrorNoOutput ==
    /\ failure # "none" => (pc = "exited" /\ exitStatus # 0 /\ stdout = <<>>)
    /\ pc # "exited" => stdout = <<>>

C5_Witness ==
    /\ pc = "exited"
    /\ failure = "field"
    /\ idx >= 1
    /\ Len(temperatures) = idx
    /\ stdout = <<>>

\* C6: in alert-summary mode every fatal failure ends the process with the
\* unknown status 3, and 0, 1, 2 are produced only by completed invocations.
C6_FatalErrorExitsUnknown ==
    (command = "nagios" /\ pc = "exited" /\ failure # "none") => exitStatus = 3


(***************************************************************************)
(* SpecClassify: the loop of fetch() on one or two well-formed readings,   *)
(* for every pair of configured thresholds.                                *)
(***************************************************************************)
Thresholds == 1..MaxThreshold
ClassifyTemps == 0..(MaxThreshold + 1)

ClassifyLists ==
    { l \in SeqsUpTo({ [keys |-> {"label", "tempc"}, label |-> "Rack", tempc |-> t] :
                          t \in ClassifyTemps }, 2) : Len(l) >= 1 }

InitClassify ==
    /\ pc = "loop"
    /\ command = "nagios"
    /\ tempWarning \in Thresholds
    /\ tempCritical \in Thresholds
    /\ decoded \in { [isDict |-> TRUE, hasSensor |-> TRUE, sensor |-> l] : l \in ClassifyLists }
    /\ idx = 0
    /\ temperatures = <<>>
    /\ nagiosExitCode = UnknownCode
    /\ stdout = <<>>
    /\ exitStatus = -1
    /\ failure = "none"
    /\ raw = <<>>
    /\ text = <<>>
    /\ device = <<>>

NextClassify == FetchSensor

SpecClassify == InitClassify /\ [][NextClassify]_vars

\* C2: with warn < crit every processed reading is Critical iff temp >= crit,
\* Warning iff warn <= temp < crit and Ok iff temp < warn, so temp = warn is
\* Warning and temp = crit is Critical, and the severity is one of the three.
C2_BandsWhenWarnBelowCrit ==
    tempWarning < tempCritical =>
        \A i \in 1..Len(temperatures) :
            LET t == SensorsOf(decoded)[i].tempc
                st == temperatures[i].state
            IN  /\ st \in {"OK", "Warning", "Critical"}
                /\ (st = "Critical") <=> (t >= tempCritical)
                /\ (st = "Warning") <=> (tempWarning <= t /\ t < tempCritical)
                /\ (st = "OK") <=> (t < tempWarning)

C2_Witness ==
    /\ tempWarning < tempCritical
    /\ Len(temperatures) = 2
    /\ SensorsOf(decoded)[1].tempc = tempWarning
    /\ SensorsOf(decoded)[2].tempc = tempCritical
    /\ States(temperatures) = <<"Warning", "Critical">>

\* C9 as stated: for every pair of thresholds, warn >= crit included, a
\* reading with temp >= crit is Critical, and a reading is Ok only if its
\* temperature is below warn and below crit.
C9_CriticalFirstAnyThresholds ==
    \A i \in 1..Len(temperatures) :
        LET t == SensorsOf(decoded)[i].tempc
            st == temperatures[i].state
        IN  /\ (t >= tempCritical) => (st = "Critical")
            /\ (st = "OK") => (t < tempWarning /\ t < tempCritical)

\* C9 amended: for every pair of thresholds, warn >= crit included, a reading
\* is Ok iff temp < warn (the warning threshold is compared first), a reading
\* with temp >= warn and temp >= crit is Critical, and with warn >= crit no
\* reading is Warning.
C9_WarnComparedFirst ==
    \A i \in 1..Len(temperatures) :
        LET t == SensorsOf(decoded)[i].tempc
            st == temperatures[i].state
        IN  /\ (st = "OK") <=> (t < tempWarning)
            /\ (t >= tempWarning /\ t >= tempCritical) => (st = "Critical")
            /\ (tempWarning >= tempCritical) => (st # "Warning")

C9_Witness ==
    /\ tempWarning > tempCritical
    /\ Len(temperatures) = 2
    /\ SensorsOf(decoded)[1].tempc >= tempCritical
    /\ SensorsOf(decoded)[1].tempc < tempWarning
    /\ SensorsOf(decoded)[2].tempc = tempWarning
    /\ States(temperatures) = <<"OK", "Critical">>


(***************************************************************************)
(* The repair of the payload text: three re.sub passes (lines 108-113).    *)
(* A text is a sequence of one-character strings.  re.sub replaces the     *)
(* leftmost non-overlapping matches, scanning from left to right.          *)
(***************************************************************************)
Lower == {"a", "b", "c", "d", "e", "f", "g", "h", "i", "j", "k", "l", "m",
          "n", "o", "p", "q", "r", "s", "t", "u", "v", "w", "x", "y", "z"}

Quote == "\""

\* Length of the greedy match of [a-z]* at position i of s.
RECURSIVE LowerRun(_, _)
LowerRun(s, i) ==
    IF i <= Len(s) /\ s[i] \in Lower THEN 1 + LowerRun(s, i + 1) ELSE 0

\* sub(r"{([a-z]*):", r'{"\1":', text) from position i on.
RECURSIVE SubKeysFrom(_, _)
SubKeysFrom(s, i) ==
    IF i > Len(s) THEN <<>>
    ELSE LET n == LowerRun(s, i + 1)
         IN  IF s[i] = "{" /\ i + n + 1 <= Len(s) /\ s[i + n + 1] = ":"
             THEN <<"{", Quote>> \o SubSeq(s, i + 1, i + n) \o <<Quote, ":">>
                      \o SubKeysFrom(s, i + n + 2)
             ELSE <<s[i]>> \o SubKeysFrom(s, i + 1)

SubKeys(s) == SubKeysFrom(s, 1)

\* sub(r",([a-z]+)", ...): the pass with a non-empty identifier required.
RECURSIVE SubCommasPlusFrom(_, _)
SubCommasPlusFrom(s, i) ==
    IF i > Len(s) THEN <<>>
    ELSE LET n == LowerRun(s, i + 1)
         IN  IF s[i] = "," /\ n >= 1
             THEN <<",", Quote>> \o SubSeq(s, i + 1, i + n) \o <<Quote>>
                      \o SubCommasPlusFrom(s, i + n + 1)
             ELSE <<s[i]>> \o SubCommasPlusFrom(s, i + 1)

SubCommasPlus(s) == SubCommasPlusFrom(s, 1)

\* sub(r",([a-z]*)", r',"\1"', text) from position i on.
RECURSIVE SubCommasFrom(_, _)
SubCommasFrom(s, i) ==
    IF i > Len(s) THEN <<>>
    ELSE LET n == LowerRun(s, i + 1)
         IN  IF s[i] = ","
             THEN <<",", Quote>> \o SubSeq(s, i + 1, i + n) \o <<Quote>>
                      \o SubCommasFrom(s, i + n + 1)
             ELSE <<s[i]>> \o SubCommasFrom(s, i + 1)

SubCommas(s) == SubCommasFrom(s, 1)

\* The third pass left out.
SubArtifactNone(s) == s

\* sub(',""{', ',{', text) from position i on.
RECURSIVE SubArtifactFrom(_, _)
SubArtifactFrom(s, i) ==
    IF i > Len(s) THEN <<>>
    ELSE IF i + 3 <= Len(s) /\ SubSeq(s, i, i + 3) = <<",", Quote, Quote, "{">>
         THEN <<",", "{">> \o SubArtifactFrom(s, i + 4)
         ELSE <<s[i]>> \o SubArtifactFrom(s, i + 1)

SubArtifact(s) == SubArtifactFrom(s, 1)

Repair(s) == SubArtifact(SubCommas(SubKeys(s)))

\* The three passes, one action each.
RepairKeys ==
    /\ pc = "received"
    /\ text' = SubKeys(text)
    /\ pc' = "keys"
    /\ UNCHANGED <<command, tempWarning, tempCritical, decoded, idx, temperatures,
                   nagiosExitCode, stdout, exitStatus, failure, raw, device>>

RepairCommas ==
    /\ pc = "keys"
    /\ text' = SubCommas(text)
    /\ pc' = "commas"
    /\ UNCHANGED <<command, tempWarning, tempCritical, decoded, idx, temperatures,
                   nagiosExitCode, stdout, exitStatus, failure, raw, device>>

RepairArtifact ==
    /\ pc = "commas"
    /\ text' = SubArtifact(text)
    /\ pc' = "repaired"
    /\ UNCHANGED <<command, tempWarning, tempCritical, decoded, idx, temperatures,
                   nagiosExitCode, stdout, exitStatus, failure, raw, device>>

NextRepair == RepairKeys \/ RepairCommas \/ RepairArtifact

\* The state once tn.read_all() returned t.
Received(t) ==
    /\ pc = "received"
    /\ command = ""
    /\ tempWarning = DefaultWarning
    /\ tempCritical = DefaultCritical
    /\ decoded = NoValue
    /\ idx = 0
    /\ temperatures = <<>>
    /\ nagiosExitCode = UnknownCode
    /\ stdout = <<>>
    /\ exitStatus = -1
    /\ failure = "none"
    /\ raw = t
    /\ text = t

(***************************************************************************)
(* SpecRepair: the repair of every text of at most MaxLen characters.      *)
(***************************************************************************)
Alphabet == {"{", ",", ":", Quote, "a", "1"}

Texts == SeqsUpTo(Alphabet, MaxLen)

InitRepair == \E t \in Texts : Received(t) /\ device = <<>>

SpecRepair == InitRepair /\ [][NextRepair]_vars

\* Positions of the commas of s, in order.
CommaPos(s) == SelectSeq([i \in 1..Len(s) |-> i], LAMBDA i : s[i] = ",")

\* s has the four characters ,""{ somewhere.
HasArtifact(s) ==
    \E i \in 1..(Len(s) - 3) : SubSeq(s, i, i + 3) = <<",", Quote, Quote, "{">>

FollowedBy(s, p, c) == p + 1 <= Len(s) /\ s[p + 1] = c

\* C8: the passes keep the commas (their number and order); every comma of
\* the raw text that is immediately followed by { is followed by ""{ after
\* the second pass and by { again after the third, and the repaired text
\* contains no ,""{ at all.
C8_ArtifactRemoved ==
    LET r == CommaPos(raw)
        c == CommaPos(text)
    IN  /\ Len(c) = Len(r)
        /\ pc = "commas" =>
              \A k \in 1..Len(r) :
                  FollowedBy(raw, r[k], "{") =>
                      /\ c[k] + 3 <= Len(text)
                      /\ SubSeq(text, c[k], c[k] + 3) = <<",", Quote, Quote, "{">>
        /\ pc = "repaired" =>
              /\ ~HasArtifact(text)
              /\ \A k \in 1..Len(r) :
                    FollowedBy(raw, r[k], "{") => FollowedBy(text, c[k], "{")

C8_Witness ==
    /\ pc = "repaired"
    /\ raw = <<",", "{", Quote, "a", Quote>>
    /\ text = raw

\* The comma at position p of s is followed by a character that is neither
\* a lowercase letter nor {, or by the end of the text.
OtherFollows(s, p) == p = Len(s) \/ s[p + 1] \notin (Lower \cup {"{"})

\* C10: the second pass matches an empty identifier: after the three passes
\* every comma of the raw text that is followed by a character other than a
\* lowercase letter or { (or by the end of the text) is followed by an
\* inserted "" and then by what followed it before; so the repair changes
\* such a text (,"k":1 becomes ,"""k":1) and changes its own output again.
C10_EmptyIdentifierQuoted ==
    /\ Repair(<<",", Quote, "k", Quote, ":", "1">>)
          = <<",", Quote, Quote, Quote, "k", Quote, ":", "1">>
    /\ pc = "repaired" =>
          LET r == CommaPos(raw)
              c == CommaPos(text)
          IN  /\ \A k \in 1..Len(r) :
                    OtherFollows(raw, r[k]) =>
                        /\ c[k] + 2 <= Len(text)
                        /\ SubSeq(text, c[k] + 1, c[k] + 2) = <<Quote, Quote>>
                        /\ r[k] = Len(raw) => c[k] + 2 = Len(text)
                        /\ r[k] < Len(raw) =>
                              (c[k] + 3 <= Len(text) /\ text[c[k] + 3] = raw[r[k] + 1])
              /\ (\E k \in 1..Len(r) : OtherFollows(raw, r[k])) =>
                    (text # raw /\ Repair(text) # text)

C10_Witness ==
    /\ pc = "repaired"
    /\ raw = <<",", Quote, "a", Quote, ":">>
    /\ text = <<",", Quote, Quote, Quote, "a", Quote, ":">>


(***************************************************************************)
(* SpecDialect: the repair of objects in the device dialect: bare          *)
(* lowercase keys, each directly after { or a comma, values that are       *)
(* numbers or quoted strings.                                              *)
(***************************************************************************)
Keys == {<<"a">>, <<"a", "b">>}
ContentChars == {"a", ",", "{", ":"}

DialectValues ==
    { [quoted |-> FALSE, chars |-> <<"1">>] }
    \cup { [quoted |-> TRUE, chars |-> c] : c \in SeqsUpTo(ContentChars, MaxContent) }

DialectPairs == { [key |-> k, value |-> v] : k \in Keys, v \in DialectValues }

DialectObjects == { o \in SeqsUpTo(DialectPairs, MaxPairs) : Len(o) >= 1 }

RenderValue(v) == IF v.quoted THEN <<Quote>> \o v.chars \o <<Quote>> ELSE v.chars

\* The object as the device sends it (bare keys) and as JSON (quoted keys).
RECURSIVE RenderPairs(_, _)
RenderPairs(o, quoteKeys) ==
    IF o = <<>> THEN <<>>
    ELSE LET p == Head(o)
             k == IF quoteKeys THEN <<Quote>> \o p.key \o <<Quote>> ELSE p.key
         IN  k \o <<":">> \o RenderValue(p.value)
               \o (IF Tail(o) = <<>> THEN <<>> ELSE <<",">> \o RenderPairs(Tail(o), quoteKeys))

RenderBare(o) == <<"{">> \o RenderPairs(o, FALSE) \o <<"}">>
RenderJson(o) == <<"{">> \o RenderPairs(o, TRUE) \o <<"}">>

InitDialect == \E o \in DialectObjects : Received(RenderBare(o)) /\ device = o

SpecDialect == InitDialect /\ [][NextRepair]_vars

\* C7: for every payload in the device dialect the repair wraps every key in
\* double quotes and changes nothing else: the repaired text is the JSON
\* rendering of the same keys and values in the same order, and
\* {label:"x",tempc:20} becomes {"label":"x","tempc":20}.
C7_RepairQuotesKeysOnly ==
    /\ Repair(<<"{", "l", "a", "b", "e", "l", ":", Quote, "x", Quote, ",",
                "t", "e", "m", "p", "c", ":", "2", "0", "}">>)
          = <<"{", Quote, "l", "a", "b", "e", "l", Quote, ":", Quote, "x", Quote, ",",
              Quote, "t", "e", "m", "p", "c", Quote, ":", "2", "0", "}">>
    /\ pc = "repaired" => text = RenderJson(device)

====
